---- MODULE Spec2Model ----
(***************************************************************************)
(* Model of the annotation workflow of multi-class-phishing:               *)
(*   scripts/iaa_analysis.py     inter-annotator agreement analyzer        *)
(*   scripts/extract_remarks.py  review-merge extractor                    *)
(*   scripts/annotation_tool.py  the annotation-capture tool               *)
(*                                                                         *)
(* A progress file is a sequence of rows; a row holds the CSV cells as     *)
(* text.  pandas.read_csv turns an empty cell into NaN and a numeral into  *)
(* a number.  Floating point results are kept as exact fractions           *)
(* [num, den]; den = 0 stands for NaN (the value of 0/0).                  *)
(***************************************************************************)
EXTENDS Integers, Sequences, FiniteSets, TLC

VARIABLES
    pc,                 \* position of the running script
    files,              \* the *_progress.csv files, in glob order
    annotations,        \* iaa_analysis: dict annotator -> DataFrame, or None
    report,             \* iaa_analysis: what has been printed
    results,            \* compute_pairwise_kappa: [is_none, items], the list or None
    pairIdx,            \* compute_pairwise_kappa: position in combinations()
    merged,             \* find_disagreements: the wide table
    disagreements_csv,  \* the file disagreements.csv, or None
    writes,             \* number of to_csv calls made
    kappa,              \* interpret_kappa: the argument
    tier,               \* interpret_kappa: the returned string
    review_csv,         \* extract_remarks: the file emails_for_review.csv
    data_loaded,        \* annotation_tool: st.session_state.data_loaded
    uploaded_df,        \* annotation_tool: st.session_state.uploaded_df
    annotator_id,       \* annotation_tool: st.session_state.annotator_id, 0 for None
    progress_df,        \* annotation_tool: st.session_state.progress_df
    current_idx,        \* annotation_tool: st.session_state.current_idx
    view_skipped        \* annotation_tool: st.session_state.view_skipped

vars == <<pc, files, annotations, report, results, pairIdx, merged,
          disagreements_csv, writes, kappa, tier, review_csv, data_loaded,
          uploaded_df, annotator_id, progress_df, current_idx, view_skipped>>

kappaVars == <<kappa, tier>>

toolVars == <<data_loaded, uploaded_df, annotator_id, progress_df, current_idx,
              view_skipped>>

analyzerVars == <<files, annotations, report, results, pairIdx, merged,
                  disagreements_csv, writes>>

(***************************************************************************)
(* Bounds of the model.                                                    *)
(***************************************************************************)
MaxAnnotators == 3      \* progress files in one run
MaxTotalRows == 4       \* rows over all progress files of one run
MaxTailRows == 2        \* rows added after the shared blocks (SpecOverlap)
KappaScale == 100       \* kappa arguments are the fractions m / KappaScale
MaxRemarkRows == 3      \* rows over all progress files read by the extractor
MaxItems == 2           \* rows of the table uploaded to the annotation tool

Texts == {1, 2}                 \* text_cleaned keys of the small tables
LabelCells == {"", "1", "2"}    \* annotation_label cells of the small tables

(***************************************************************************)
(* Generic helpers.                                                        *)
(***************************************************************************)
Range(s) == {s[i] : i \in DOMAIN s}

RECURSIVE Flatten(_)
Flatten(ss) == IF ss = <<>> THEN <<>> ELSE Head(ss) \o Flatten(Tail(ss))

RECURSIVE SortedSeq(_)
\* the elements of a finite set of integers in ascending order
SortedSeq(S) ==
    IF S = {} THEN <<>>
    ELSE LET m == CHOOSE x \in S : \A y \in S : x <= y
         IN  <<m>> \o SortedSeq(S \ {m})

RECURSIVE Count(_, _)
Count(s, x) ==
    IF s = <<>> THEN 0
    ELSE (IF Head(s) = x THEN 1 ELSE 0) + Count(Tail(s), x)

RECURSIVE Unique(_)
\* first occurrences, in order
Unique(s) ==
    IF s = <<>> THEN <<>>
    ELSE LET r == Unique(SubSeq(s, 1, Len(s) - 1))
         IN  IF s[Len(s)] \in Range(r) THEN r ELSE Append(r, s[Len(s)])

(***************************************************************************)
(* pandas.read_csv                                                         *)
(***************************************************************************)
NaN == 0        \* the missing value; labels are positive integers

\* a numeral cell parsed as a number
to_numeric(cell) ==
    CASE cell = "1" -> 1
      [] cell = "2" -> 2
      [] cell = "3" -> 3
      [] cell = "4" -> 4

\* one cell of a numeric column: empty cells are read as NaN
read_cell(cell) == IF cell = "" THEN NaN ELSE to_numeric(cell)

\* pd.read_csv(file): the label column is parsed, text cells stay text
\* except that an empty text cell is NaN as well (kept as "")
read_csv(file) ==
    [i \in DOMAIN file |->
        [text_cleaned |-> file[i].text_cleaned,
         annotation_label |-> read_cell(file[i].annotation_label),
         annotator_confidence |-> file[i].annotator_confidence,
         annotator_remarks |-> file[i].annotator_remarks]]

(***************************************************************************)
(* Floating point values as fractions.                                     *)
(***************************************************************************)
FloatNaN == [num |-> 0, den |-> 0]
IsNaN(x) == x.den = 0
\* x < tn/td, as Python compares floats: any comparison with NaN is False
FloatLt(x, tn, td) == IF IsNaN(x) THEN FALSE ELSE x.num * td < tn * x.den

(***************************************************************************)
(* iaa_analysis.interpret_kappa                                            *)
(***************************************************************************)
interpret_kappa_closed(k) ==
    IF FloatLt(k, 0, 100) THEN "Poor (less than chance)"
    ELSE IF ~IsNaN(k) /\ k.num * 100 <= 20 * k.den THEN "Slight"
    ELSE IF FloatLt(k, 40, 100) THEN "Fair"
    ELSE IF FloatLt(k, 60, 100) THEN "Moderate"
    ELSE IF FloatLt(k, 80, 100) THEN "Substantial"
    ELSE "Almost Perfect"

interpret_kappa(k) ==
    IF FloatLt(k, 0, 100) THEN "Poor (less than chance)"
    ELSE IF FloatLt(k, 20, 100) THEN "Slight"
    ELSE IF FloatLt(k, 40, 100) THEN "Fair"
    ELSE IF FloatLt(k, 60, 100) THEN "Moderate"
    ELSE IF FloatLt(k, 80, 100) THEN "Substantial"
    ELSE "Almost Perfect"

(***************************************************************************)
(* iaa_analysis.load_annotations                                           *)
(***************************************************************************)
\* df['annotation_label'] != '' on the parsed column: the column holds
\* numbers and NaN, and neither equals the string ''
ne_empty_string(v) == TRUE

\* df[df['annotation_label'] != '']
only_annotated(df) == SelectSeq(df, LAMBDA r : ne_empty_string(r.annotation_label))

\* .astype(int) raises on a column that holds NaN
astype_int_raises(df) == \E i \in DOMAIN df : df[i].annotation_label = NaN

load_raises == \E f \in DOMAIN files : astype_int_raises(only_annotated(read_csv(files[f])))

\* returns None without files; None is kept as the empty mapping, which
\* "if annotations:" treats alike
load_annotations ==
    IF files = <<>> THEN <<>>
    ELSE [f \in DOMAIN files |-> only_annotated(read_csv(files[f]))]

(***************************************************************************)
(* iaa_analysis.compute_overall_agreement                                  *)
(***************************************************************************)
Event(msg, a1, a2, n, info) ==
    [msg |-> msg, a1 |-> a1, a2 |-> a2, n |-> n, info |-> info]

\* one summary per annotator, in dict order
compute_overall_agreement(ann) ==
    [a \in DOMAIN ann |-> Event("summary", a, a, Len(ann[a]), "")]

(***************************************************************************)
(* iaa_analysis.compute_pairwise_kappa                                     *)
(***************************************************************************)
MinOverlap == 10

\* a guard that lets a single annotator through
too_few_none(ann) == Len(ann) < 1

\* "if len(annotator_ids) < 2": the early return of both analyses
too_few(ann) == Len(ann) < 2

\* only the pairs (i, i + 1)
combinations_adjacent(n, i, j) ==
    [k \in 1..(IF n < i + 1 THEN 0 ELSE n - i) |-> <<i + k - 1, i + k>>]

RECURSIVE combinations(_, _, _)
\* itertools.combinations(annotator_ids, 2) from position (i, j) on
combinations(n, i, j) ==
    IF i >= n THEN <<>>
    ELSE IF j > n THEN combinations(n, i + 1, i + 2)
    ELSE <<<<i, j>>>> \o combinations(n, i, j + 1)

Pairs(ann) == combinations(Len(ann), 1, 2)

\* df.set_index('text_cleaned').index
index_of(df) == [i \in DOMAIN df |-> df[i].text_cleaned]

\* Index.intersection: the distinct keys of idx1 that occur in idx2
intersection(idx1, idx2) == Unique(SelectSeq(idx1, LAMBDA k : k \in Range(idx2)))

\* df.loc[keys, 'annotation_label'].values: for each key, in order, the
\* labels of every row that carries the key
loc_labels(df, keys) ==
    Flatten([i \in DOMAIN keys |->
        LET hit == SelectSeq(df, LAMBDA r : r.text_cleaned = keys[i])
        IN  [j \in DOMAIN hit |-> hit[j].annotation_label]])

\* np.sum(labels1 == labels2) for vectors of one length
n_equal(l1, l2) == Cardinality({i \in DOMAIN l1 : l1[i] = l2[i]})

\* np.mean(labels1 == labels2)
mean_equal(l1, l2) == [num |-> n_equal(l1, l2), den |-> Len(l1)]

RECURSIVE SumProd(_, _, _)
\* sum over the classes of count1(c) * count2(c)
SumProd(classes, l1, l2) ==
    IF classes = <<>> THEN 0
    ELSE Count(l1, Head(classes)) * Count(l2, Head(classes))
         + SumProd(Tail(classes), l1, l2)

\* sklearn.metrics.cohen_kappa_score raises on vectors of different length
kappa_raises(l1, l2) == Len(l1) # Len(l2)

\* sklearn.metrics.cohen_kappa_score(labels1, labels2), unweighted:
\*   k = sum(w_mat * confusion) / sum(w_mat * expected),  result 1 - k
\* with w_mat 0 on the diagonal and 1 elsewhere; both sums scaled by n here.
\* With one class only both sums are 0 and 0/0 is nan.
cohen_kappa_score(l1, l2) ==
    LET n == Len(l1)
        kNum == (n - n_equal(l1, l2)) * n
        kDen == n * n - SumProd(SortedSeq(Range(l1) \cup Range(l2)), l1, l2)
    IN  IF kDen = 0 THEN FloatNaN
        ELSE [num |-> kDen - kNum, den |-> kDen]

CommonIdx(ann, p) == intersection(index_of(ann[p[1]]), index_of(ann[p[2]]))
Labels1(ann, p) == loc_labels(ann[p[1]], CommonIdx(ann, p))
Labels2(ann, p) == loc_labels(ann[p[2]], CommonIdx(ann, p))

\* the dict appended to results for one pair
PairResult(ann, p) ==
    [annotator_1 |-> p[1], annotator_2 |-> p[2],
     n_samples |-> Len(CommonIdx(ann, p)),
     agreement |-> mean_equal(Labels1(ann, p), Labels2(ann, p)),
     kappa |-> cohen_kappa_score(Labels1(ann, p), Labels2(ann, p))]

(***************************************************************************)
(* iaa_analysis.find_disagreements                                         *)
(***************************************************************************)
\* df[['text_cleaned', 'annotation_label', 'annotator_confidence']] renamed
\* to label_<id>, conf_<id>: one wide row with the single annotator a
temp_row(r, a) ==
    [text_cleaned |-> r.text_cleaned,
     label |-> [x \in {a} |-> r.annotation_label],
     conf |-> [x \in {a} |-> r.annotator_confidence]]

Columns(wide) == IF wide = <<>> THEN {} ELSE DOMAIN wide[1].label

\* a wide row widened by the columns of annotator a
join_row(l, a, lab, cf) ==
    [text_cleaned |-> l.text_cleaned,
     label |-> [x \in DOMAIN l.label \cup {a} |-> IF x = a THEN lab ELSE l.label[x]],
     conf |-> [x \in DOMAIN l.conf \cup {a} |-> IF x = a THEN cf ELSE l.conf[x]]]

\* a row of annotator a alone, the other columns null
right_row(r, a, cols) ==
    [text_cleaned |-> r.text_cleaned,
     label |-> [x \in cols \cup {a} |-> IF x = a THEN r.annotation_label ELSE NaN],
     conf |-> [x \in cols \cup {a} |-> IF x = a THEN r.annotator_confidence ELSE ""]]

\* the rows of merged.merge(temp, on='text_cleaned', how='outer') for one key
merge_key(left, df, a, k) ==
    LET L == SelectSeq(left, LAMBDA r : r.text_cleaned = k)
        R == SelectSeq(df, LAMBDA r : r.text_cleaned = k)
    IN  IF R = <<>> THEN [i \in DOMAIN L |-> join_row(L[i], a, NaN, "")]
        ELSE IF L = <<>> THEN [j \in DOMAIN R |-> right_row(R[j], a, Columns(left))]
        ELSE Flatten([i \in DOMAIN L |->
                [j \in DOMAIN R |->
                    join_row(L[i], a, R[j].annotation_label, R[j].annotator_confidence)]])

\* merged.merge(temp, on='text_cleaned', how='outer'): keys in sorted order
merge_outer(left, df, a) ==
    LET keys == SortedSeq(Range(index_of(left)) \cup Range(index_of(df)))
    IN  Flatten([i \in DOMAIN keys |-> merge_key(left, df, a, keys[i])])

RECURSIVE merge_all(_, _)
\* the loop over annotations.items(), up to annotator n
merge_all(ann, n) ==
    IF n = 1 THEN [i \in DOMAIN ann[1] |-> temp_row(ann[1][i], 1)]
    ELSE merge_outer(merge_all(ann, n - 1), ann[n], n)

\* [row[c] for c in label_cols if pd.notna(row[c])]
notna_labels(row) ==
    LET cols == SortedSeq(DOMAIN row.label)
    IN  SelectSeq([i \in DOMAIN cols |-> row.label[cols[i]]], LAMBDA v : v # NaN)

\* the label list without the notna filter
all_labels(row) ==
    LET cols == SortedSeq(DOMAIN row.label)
    IN  [i \in DOMAIN cols |-> row.label[cols[i]]]

check_disagreement_nofilter(row) ==
    LET labels == all_labels(row)
    IN  IF Len(labels) < 2 THEN FALSE ELSE Cardinality(Range(labels)) > 1

check_disagreement(row) ==
    LET labels == notna_labels(row)
    IN  IF Len(labels) < 2 THEN FALSE ELSE Cardinality(Range(labels)) > 1

\* merged['has_disagreement'] = merged.apply(check_disagreement, axis=1)
with_flags(wide) ==
    [i \in DOMAIN wide |->
        [text_cleaned |-> wide[i].text_cleaned, label |-> wide[i].label,
         conf |-> wide[i].conf, has_disagreement |-> check_disagreement(wide[i])]]

\* every row, flagged or not
select_all(m) == m

\* merged[merged['has_disagreement']]
select_flagged(m) == SelectSeq(m, LAMBDA r : r.has_disagreement)

\* the two adjudication columns, empty
with_adjudication(d) ==
    [i \in DOMAIN d |->
        [text_cleaned |-> d[i].text_cleaned, label |-> d[i].label,
         conf |-> d[i].conf, has_disagreement |-> d[i].has_disagreement,
         adjudicated_label |-> "", adjudication_notes |-> ""]]

(***************************************************************************)
(* The progress files a run can find.                                      *)
(***************************************************************************)
Row(t, l, c, r) ==
    [text_cleaned |-> t, annotation_label |-> l,
     annotator_confidence |-> c, annotator_remarks |-> r]

RECURSIVE SumTo(_, _)
SumTo(f, n) == IF n = 0 THEN 0 ELSE f[n] + SumTo(f, n - 1)

\* the ways to cut n rows into k files of at least lo rows each
Cuts(n, k, lo) == {sz \in [1..k -> lo..n] : SumTo(sz, k) = n}

\* rows cut into files of the given sizes
Split(rows, sz) ==
    [f \in DOMAIN sz |->
        SubSeq(rows, SumTo(sz, f - 1) + 1, SumTo(sz, f))]

SmallRows == {Row(t, l, "", "") : t \in Texts, l \in LabelCells}

\* up to MaxAnnotators files, none empty, MaxTotalRows rows in all
SmallFiles(fs) ==
    \E k \in 0..MaxAnnotators : \E n \in k..MaxTotalRows :
        \E rows \in [1..n -> SmallRows] : \E sz \in Cuts(n, k, 1) :
            fs = Split(rows, sz)

\* a block of len rows, texts 1..len, all of class 1
Block(len) == [i \in 1..len |-> Row(i, "1", "", "")]
BlockLens == {MinOverlap - 1, MinOverlap}
TailRows == {Row(t, l, "", "") : t \in {1, MinOverlap}, l \in {"1", "2"}}

\* 2..MaxAnnotators files: a block each, MaxTailRows further rows in all
OverlapFiles(fs) ==
    \E k \in 2..MaxAnnotators : \E n \in 0..MaxTailRows :
        \E rows \in [1..n -> TailRows] : \E sz \in Cuts(n, k, 0) :
            \E b \in [1..k -> BlockLens] :
                fs = [f \in 1..k |-> Block(b[f]) \o Split(rows, sz)[f]]

(***************************************************************************)
(* iaa_analysis.py, __main__                                               *)
(***************************************************************************)
NoResults == [is_none |-> TRUE, items |-> <<>>]

\* annotation_tool.py, "Initialize session state"
InitSession ==
    /\ data_loaded = FALSE
    /\ uploaded_df = <<>>
    /\ annotator_id = 0
    /\ progress_df = <<>>
    /\ current_idx = 0
    /\ view_skipped = FALSE

InitRest ==
    /\ annotations = <<>>
    /\ report = <<>>
    /\ results = NoResults
    /\ pairIdx = 0
    /\ merged = <<>>
    /\ disagreements_csv = <<>>
    /\ writes = 0
    /\ kappa = FloatNaN
    /\ tier = ""
    /\ review_csv = <<>>
    /\ InitSession

Init ==
    /\ pc = "load"
    /\ SmallFiles(files)
    /\ InitRest

InitOverlap ==
    /\ pc = "load"
    /\ OverlapFiles(files)
    /\ InitRest

\* the files read before the first one whose coercion raises
LoadedBeforeRaise ==
    LET bad == {f \in DOMAIN files : astype_int_raises(only_annotated(read_csv(files[f])))}
        first == CHOOSE f \in bad : \A g \in bad : f <= g
    IN  [f \in 1..(first - 1) |->
            Event("Loaded", f, f, Len(only_annotated(read_csv(files[f]))), "")]

\* annotations = load_annotations()
Load ==
    /\ pc = "load"
    /\ IF load_raises
       THEN /\ pc' = "raised"
            /\ report' = LoadedBeforeRaise
            /\ UNCHANGED annotations
       ELSE /\ annotations' = load_annotations
            /\ report' = IF files = <<>>
                         THEN <<Event("No annotation files found.", 0, 0, 0, "")>>
                         ELSE [f \in DOMAIN files |->
                                  Event("Loaded", f, f, Len(load_annotations[f]), "")]
            /\ pc' = IF load_annotations = <<>> THEN "done" ELSE "overall"
    /\ UNCHANGED <<files, results, pairIdx, merged, disagreements_csv, writes, kappaVars, review_csv, toolVars>>

\* compute_overall_agreement(annotations)
Overall ==
    /\ pc = "overall"
    /\ report' = report \o compute_overall_agreement(annotations)
    /\ pc' = "kappa"
    /\ UNCHANGED <<files, annotations, results, pairIdx, merged, disagreements_csv,
                   writes, kappaVars, review_csv, toolVars>>

\* compute_pairwise_kappa(annotations), up to the loop
KappaStart ==
    /\ pc = "kappa"
    /\ IF too_few(annotations)
       THEN /\ report' = Append(report, Event("Need at least 2 annotators for IAA.", 0, 0, 0, ""))
            /\ results' = NoResults
            /\ pc' = "disagree"
            /\ UNCHANGED pairIdx
       ELSE /\ report' = Append(report, Event("Pairwise Cohen's Kappa", 0, 0, 0, ""))
            /\ results' = [is_none |-> FALSE, items |-> <<>>]
            /\ pairIdx' = 1
            /\ pc' = "kappa_loop"
    /\ UNCHANGED <<files, annotations, merged, disagreements_csv, writes, kappaVars, review_csv, toolVars>>

\* one iteration of "for a1, a2 in combinations(annotator_ids, 2)"
KappaPair ==
    /\ pc = "kappa_loop"
    /\ pairIdx <= Len(Pairs(annotations))
    /\ LET p == Pairs(annotations)[pairIdx]
           n == Len(CommonIdx(annotations, p))
       IN  IF n < MinOverlap
           THEN /\ report' = Append(report, Event("Not enough overlap", p[1], p[2], n, ""))
                /\ pairIdx' = pairIdx + 1
                /\ UNCHANGED <<pc, results>>
           ELSE IF kappa_raises(Labels1(annotations, p), Labels2(annotations, p))
           THEN /\ pc' = "raised"
                /\ UNCHANGED <<report, pairIdx, results>>
           ELSE /\ results' = [results EXCEPT !.items = Append(@, PairResult(annotations, p))]
                /\ report' = Append(report,
                                Event("pair", p[1], p[2], n,
                                      interpret_kappa(PairResult(annotations, p).kappa)))
                /\ pairIdx' = pairIdx + 1
                /\ UNCHANGED pc
    /\ UNCHANGED <<files, annotations, merged, disagreements_csv, writes, kappaVars, review_csv, toolVars>>

\* return results
KappaReturn ==
    /\ pc = "kappa_loop"
    /\ pairIdx > Len(Pairs(annotations))
    /\ pc' = "disagree"
    /\ UNCHANGED <<analyzerVars, kappaVars, review_csv, toolVars>>

\* the crosstab printed for each pair with a jointly labelled row
Confusions(m, ann) ==
    LET ps == Pairs(ann)
        joint == SelectSeq(ps, LAMBDA p :
                    \E i \in DOMAIN m : m[i].label[p[1]] # NaN /\ m[i].label[p[2]] # NaN)
    IN  [i \in DOMAIN joint |-> Event("confusion", joint[i][1], joint[i][2], 0, "")]

\* find_disagreements(annotations)
FindDisagreements ==
    /\ pc = "disagree"
    /\ IF too_few(annotations)
       THEN /\ pc' = "done"
            /\ UNCHANGED <<report, merged, disagreements_csv, writes>>
       ELSE LET m == with_flags(merge_all(annotations, Len(annotations)))
                d == select_flagged(m)
            IN  /\ merged' = m
                /\ IF Len(m) = 0
                   THEN \* len(disagreements)/len(merged): ZeroDivisionError
                        /\ pc' = "raised"
                        /\ report' = Append(report, Event("Disagreement Analysis", 0, 0, 0, ""))
                        /\ UNCHANGED <<disagreements_csv, writes>>
                   ELSE /\ pc' = "done"
                        /\ report' = Append(report, Event("Disagreement Analysis", 0, 0, Len(d), ""))
                                     \o Confusions(m, annotations)
                        /\ IF Len(d) > 0
                           THEN /\ disagreements_csv' = with_adjudication(d)
                                /\ writes' = writes + 1
                           ELSE UNCHANGED <<disagreements_csv, writes>>
    /\ UNCHANGED <<files, annotations, results, pairIdx, kappaVars, review_csv, toolVars>>

Next ==
    \/ Load
    \/ Overall
    \/ KappaStart
    \/ KappaPair
    \/ KappaReturn
    \/ FindDisagreements

Spec == Init /\ [][Next]_vars

SpecOverlap == InitOverlap /\ [][Next]_vars

(***************************************************************************)
(* interpret_kappa applied to the fractions m / KappaScale and to nan.     *)
(***************************************************************************)
InitKappa ==
    /\ pc = "interpret"
    /\ files = <<>>
    /\ annotations = <<>>
    /\ report = <<>>
    /\ results = NoResults
    /\ pairIdx = 0
    /\ merged = <<>>
    /\ disagreements_csv = <<>>
    /\ writes = 0
    /\ kappa \in {[num |-> m, den |-> KappaScale] : m \in (0 - KappaScale)..KappaScale}
                 \cup {FloatNaN}
    /\ tier = ""
    /\ review_csv = <<>>
    /\ InitSession

Interpret ==
    /\ pc = "interpret"
    /\ tier' = interpret_kappa(kappa)
    /\ pc' = "interpreted"
    /\ UNCHANGED <<analyzerVars, kappa, review_csv, toolVars>>

NextKappa == Interpret

SpecKappa == InitKappa /\ [][NextKappa]_vars

(***************************************************************************)
(* Properties of the analyzer.                                             *)
(***************************************************************************)
Events(msg) == SelectSeq(report, LAMBDA e : e.msg = msg)
PairEvents(msg, i, j) == SelectSeq(report, LAMBDA e : e.msg = msg /\ e.a1 = i /\ e.a2 = j)
PairResults(i, j) ==
    SelectSeq(results.items, LAMBDA r : r.annotator_1 = i /\ r.annotator_2 = j)

\* the annotators whose label in a wide row is not null
Labelled(row) == {a \in DOMAIN row.label : row.label[a] # NaN}

\* C1: every row of the wide table is flagged has_disagreement exactly when
\* two annotators hold non-null labels for it that differ; a row with a
\* single label, or with equal labels only, is not flagged.
C1_FlagIffDistinctLabels ==
    \A i \in DOMAIN merged :
        /\ merged[i].has_disagreement <=>
              \E a, b \in Labelled(merged[i]) : merged[i].label[a] # merged[i].label[b]
        /\ Cardinality(Labelled(merged[i])) = 1 => ~merged[i].has_disagreement

C1_Witness ==
    /\ pc = "done"
    /\ \E i \in DOMAIN merged : merged[i].has_disagreement
    /\ \E i \in DOMAIN merged :
          Cardinality(Labelled(merged[i])) = 1 /\ ~merged[i].has_disagreement
    /\ \E i \in DOMAIN merged :
          Cardinality(Labelled(merged[i])) >= 2 /\ ~merged[i].has_disagreement

\* C2: a kappa below 0 is Poor, in [0, 0.20) Slight, in [0.20, 0.40) Fair,
\* in [0.40, 0.60) Moderate, in [0.60, 0.80) Substantial and in [0.80, 1.0]
\* Almost Perfect: lower bounds inclusive, upper bounds exclusive.
C2_TierBoundaries ==
    (pc = "interpreted" /\ kappa.den > 0) =>
        LET m == 5 * kappa.num
            d == kappa.den
        IN  /\ m < 0 => tier = "Poor (less than chance)"
            /\ (0 <= m /\ m < d) => tier = "Slight"
            /\ (d <= m /\ m < 2 * d) => tier = "Fair"
            /\ (2 * d <= m /\ m < 3 * d) => tier = "Moderate"
            /\ (3 * d <= m /\ m < 4 * d) => tier = "Substantial"
            /\ (4 * d <= m /\ m <= 5 * d) => tier = "Almost Perfect"

C2_Witness ==
    /\ pc = "interpreted"
    /\ kappa.den > 0
    /\ 5 * kappa.num = kappa.den
    /\ tier = "Fair"

\* C5 (as claimed): load_annotations succeeds on every set of files and
\* returns, per file, exactly the rows whose label cell is not empty, the
\* label as an integer.
C5_LoadDropsUnlabelledRows ==
    (pc # "load" /\ files # <<>>) =>
        /\ pc # "raised"
        /\ DOMAIN annotations = DOMAIN files
        /\ \A f \in DOMAIN files :
              LET kept == SelectSeq(files[f], LAMBDA r : r.annotation_label # "")
              IN  /\ Len(annotations[f]) = Len(kept)
                  /\ \A i \in DOMAIN kept :
                        /\ annotations[f][i].text_cleaned = kept[i].text_cleaned
                        /\ annotations[f][i].annotation_label \in 1..4

\* C6: with exactly one annotator loaded the summary of that annotator is
\* printed, neither the pairwise computation nor the disagreement analysis
\* is performed, nothing is written and the run does not raise.
C6_SingleAnnotator ==
    Len(annotations) = 1 =>
        /\ pc \notin {"raised", "kappa_loop"}
        /\ pc \in {"kappa", "disagree", "done"} =>
              /\ Len(Events("summary")) = 1
              /\ Events("summary")[1].a1 = 1
              /\ Events("summary")[1].n = Len(files[1])
        /\ results = NoResults
        /\ Events("Pairwise Cohen's Kappa") = <<>>
        /\ Events("pair") = <<>>
        /\ Events("Disagreement Analysis") = <<>>
        /\ merged = <<>>
        /\ disagreements_csv = <<>>
        /\ writes = 0

C6_Witness ==
    /\ Len(annotations) = 1
    /\ pc = "done"
    /\ Len(Events("summary")) = 1

\* C7: find_disagreements writes at most one file; it writes it exactly when
\* a row is flagged, and the file then holds the flagged rows, in order and
\* no others, each with adjudicated_label and adjudication_notes empty.
C7_FileHoldsFlaggedRows ==
    /\ writes <= 1
    /\ (pc = "done" /\ Len(annotations) >= 2) =>
          LET flagged == {i \in DOMAIN merged : merged[i].has_disagreement}
              nth(k) == CHOOSE i \in flagged : Cardinality({j \in flagged : j < i}) = k - 1
          IN  /\ writes = 1 <=> flagged # {}
              /\ Len(disagreements_csv) = Cardinality(flagged)
              /\ \A k \in DOMAIN disagreements_csv :
                    /\ disagreements_csv[k].text_cleaned = merged[nth(k)].text_cleaned
                    /\ disagreements_csv[k].label = merged[nth(k)].label
                    /\ disagreements_csv[k].conf = merged[nth(k)].conf
                    /\ disagreements_csv[k].has_disagreement
                    /\ disagreements_csv[k].adjudicated_label = ""
                    /\ disagreements_csv[k].adjudication_notes = ""
    /\ writes = 0 => disagreements_csv = <<>>

C7_Witness ==
    /\ pc = "done"
    /\ writes = 1
    /\ \E i \in DOMAIN merged : ~merged[i].has_disagreement
    /\ Len(disagreements_csv) >= 1

(***************************************************************************)
(* Properties of the pairwise computation.                                 *)
(***************************************************************************)
\* the distinct text keys two loaded annotators share
CommonKeys(i, j) ==
    {annotations[i][r].text_cleaned : r \in DOMAIN annotations[i]}
        \cap {annotations[j][r].text_cleaned : r \in DOMAIN annotations[j]}

\* the labels an annotator gave to a text
LabelsFor(i, t) ==
    {annotations[i][r].annotation_label :
        r \in {q \in DOMAIN annotations[i] : annotations[i][q].text_cleaned = t}}

AllPairs == {q \in (DOMAIN annotations) \X (DOMAIN annotations) : q[1] < q[2]}

\* C3 (as claimed): a recorded pair whose two label vectors are identical has
\* agreement 1; its kappa is 1 when the vectors hold more than one class and
\* 0 when they hold a single class, never nan, and the single-class case is
\* printed with the tier of kappa = 0.
C3_IdenticalVectors ==
    \A k \in DOMAIN results.items :
        LET r == results.items[k]
            p == <<r.annotator_1, r.annotator_2>>
            l1 == Labels1(annotations, p)
            l2 == Labels2(annotations, p)
            single == Cardinality(Range(l1)) = 1
            printed == PairEvents("pair", p[1], p[2])
        IN  l1 = l2 =>
              /\ r.agreement.num = r.agreement.den
              /\ r.kappa.den # 0
              /\ single => r.kappa.num = 0
              /\ ~single => r.kappa.num = r.kappa.den
              /\ single => \A e \in DOMAIN printed : printed[e].info = "Slight"

\* C4: the loop visits every unordered pair once, in order; a pair with
\* fewer than MinOverlap common keys is only reported and leaves no result,
\* every visited pair with MinOverlap common keys or more leaves one result,
\* and the loop never stops at a skipped pair.
C4_SkipDoesNotAbort ==
    ~results.is_none =>
        /\ \A q \in AllPairs :
              LET n == Cardinality(CommonKeys(q[1], q[2]))
                  skipped == Len(PairEvents("Not enough overlap", q[1], q[2]))
                  added == Len(PairResults(q[1], q[2]))
              IN  /\ n < 10 => added = 0 /\ skipped <= 1
                  /\ n >= 10 => skipped = 0 /\ added <= 1
                  /\ pc \in {"disagree", "done"} => skipped + added = 1
        /\ Len(Events("Not enough overlap")) + Len(results.items) = pairIdx - 1
        /\ (pc = "raised" /\ pairIdx <= Len(Pairs(annotations))) =>
              LET q == Pairs(annotations)[pairIdx]
              IN  Cardinality(CommonKeys(q[1], q[2])) >= 10

\* a skipped pair is followed, later in the same run, by a computed one
C4_Witness ==
    /\ pc = "disagree"
    /\ \E i, j \in DOMAIN report :
          /\ i < j
          /\ report[i].msg = "Not enough overlap"
          /\ report[j].msg = "pair"
    /\ Len(results.items) >= 1

\* C9 (as claimed): the run does not fail, and every visited pair with at
\* least MinOverlap common keys has one result whose n_samples is the number
\* of common keys and whose agreement is the number of common keys on which
\* the two annotators' labels are the same, over that number.
C9_AgreementOverCommonKeys ==
    /\ pc # "raised"
    /\ \A k \in DOMAIN results.items :
          LET r == results.items[k]
              keys == CommonKeys(r.annotator_1, r.annotator_2)
              same == {t \in keys : LabelsFor(r.annotator_1, t) = LabelsFor(r.annotator_2, t)}
          IN  /\ r.n_samples = Cardinality(keys)
              /\ r.agreement.den = Cardinality(keys)
              /\ r.agreement.num = Cardinality(same)
    /\ (pc \in {"disagree", "done"} /\ ~results.is_none) =>
          \A q \in AllPairs :
              Cardinality(CommonKeys(q[1], q[2])) >= 10 => Len(PairResults(q[1], q[2])) = 1

(***************************************************************************)
(* extract_remarks.extract_emails_with_remarks                             *)
(*                                                                         *)
(* A DataFrame row is kept with its index label idx.  The descriptive      *)
(* columns source_dataset and text_length (aggregated with 'first') are    *)
(* left out.  all_remarks, the string ' | '.join("[id] remark"), is kept   *)
(* as the sequence of its <<id, remark>> parts.                            *)
(***************************************************************************)
\* df['annotator_remarks'].notna() & (df['annotator_remarks'] != ''): an
\* empty cell is read as NaN
has_remarks(r) == r.annotator_remarks # ""

\* pd.read_csv(file) with its RangeIndex 0..n-1 and the annotator_id column
frame(file, a) ==
    [i \in DOMAIN file |->
        [idx |-> i - 1, annotator_id |-> a,
         text_cleaned |-> file[i].text_cleaned,
         annotation_label |-> read_cell(file[i].annotation_label),
         annotator_confidence |-> file[i].annotator_confidence,
         annotator_remarks |-> file[i].annotator_remarks]]

\* df[has_remarks].copy(): the rows keep their index labels
remarks_df(file, a) == SelectSeq(frame(file, a), has_remarks)

\* the list all_remarks: the non-empty remarks_df of the files, in order
all_remarks_list(fs) ==
    SelectSeq([f \in DOMAIN fs |-> remarks_df(fs[f], f)], LAMBDA d : Len(d) > 0)

\* pd.concat(all_remarks) with the index labels of the parts kept
concat_keep_index(frames) == Flatten(frames)

\* pd.concat(all_remarks, ignore_index=True): index labels 0..n-1
concat(frames) ==
    LET rows == Flatten(frames)
    IN  [i \in DOMAIN rows |-> [rows[i] EXCEPT !.idx = i - 1]]

\* combined.loc[i, 'annotator_id']
loc_annotator_id(combined, i) ==
    LET hit == SelectSeq(combined, LAMBDA r : r.idx = i)
    IN  hit[1].annotator_id

\* one group of combined.groupby('text_cleaned').agg({...}), with the
\* renamed columns and the three empty columns of the chief annotator
review_row(combined, t) ==
    LET x == SelectSeq(combined, LAMBDA r : r.text_cleaned = t)
        tagged == SelectSeq(x, LAMBDA r : r.annotator_remarks # "")
    IN  [text_cleaned |-> t,
         original_labels |-> [i \in DOMAIN x |-> x[i].annotation_label],
         original_confidence |-> [i \in DOMAIN x |-> x[i].annotator_confidence],
         all_remarks |-> [i \in DOMAIN tagged |->
                            <<loc_annotator_id(combined, tagged[i].idx),
                              tagged[i].annotator_remarks>>],
         annotators |-> [i \in DOMAIN x |-> x[i].annotator_id],
         chief_label |-> "", chief_confidence |-> "", chief_notes |-> ""]

\* groupby(...).agg(...).reset_index(): one row per key, keys sorted
review_df(combined) ==
    LET keys == SortedSeq(Range(index_of(combined)))
    IN  [k \in DOMAIN keys |-> review_row(combined, keys[k])]

RemarkRows == {Row(t, l, "", r) : t \in Texts, l \in {"", "1"}, r \in {"", "r", "s"}}

\* up to MaxAnnotators files, none empty, MaxRemarkRows rows in all
RemarkFiles(fs) ==
    \E k \in 0..MaxAnnotators : \E n \in k..MaxRemarkRows :
        \E rows \in [1..n -> RemarkRows] : \E sz \in Cuts(n, k, 1) :
            fs = Split(rows, sz)

InitRemarks ==
    /\ pc = "extract"
    /\ RemarkFiles(files)
    /\ InitRest

\* extract_emails_with_remarks()
Extract ==
    /\ pc = "extract"
    /\ pc' = "extracted"
    /\ IF files = <<>>
       THEN /\ report' = <<Event("No annotation progress files found.", 0, 0, 0, "")>>
            /\ UNCHANGED <<review_csv, writes>>
       ELSE IF all_remarks_list(files) = <<>>
       THEN /\ report' = <<Event("No emails with remarks found.", 0, 0, 0, "")>>
            /\ UNCHANGED <<review_csv, writes>>
       ELSE /\ review_csv' = review_df(concat(all_remarks_list(files)))
            /\ writes' = writes + 1
            /\ report' = <<Event("Saved", 0, 0,
                                 Len(review_df(concat(all_remarks_list(files)))), "")>>
    /\ UNCHANGED <<files, annotations, results, pairIdx, merged, disagreements_csv,
                   kappaVars, toolVars>>

NextRemarks == Extract

SpecRemarks == InitRemarks /\ [][NextRemarks]_vars

\* the remark-bearing rows of all files, in file order then row order
Bearing ==
    Flatten([f \in DOMAIN files |->
        LET b == SelectSeq(files[f], LAMBDA r : r.annotator_remarks # "")
        IN  [i \in DOMAIN b |-> [f |-> f, row |-> b[i]]]])

BearingFor(t) == SelectSeq(Bearing, LAMBDA b : b.row.text_cleaned = t)

\* C8: the extractor writes one row per distinct text among the rows with a
\* remark; the label, confidence and annotator lists of a text are as long
\* as the number of remark-bearing rows with that text, and the remarks are
\* tagged, in the order of those lists, with the annotator of their row.
C8_OneRowPerTextAligned ==
    pc = "extracted" =>
        /\ {review_csv[k].text_cleaned : k \in DOMAIN review_csv}
              = {Bearing[i].row.text_cleaned : i \in DOMAIN Bearing}
        /\ \A j, k \in DOMAIN review_csv :
              review_csv[j].text_cleaned = review_csv[k].text_cleaned => j = k
        /\ \A k \in DOMAIN review_csv :
              LET o == review_csv[k]
                  b == BearingFor(o.text_cleaned)
              IN  /\ Len(o.original_labels) = Len(b)
                  /\ Len(o.original_confidence) = Len(b)
                  /\ Len(o.annotators) = Len(b)
                  /\ Len(o.all_remarks) = Len(b)
                  /\ \A i \in DOMAIN b :
                        /\ o.annotators[i] = b[i].f
                        /\ o.all_remarks[i] = <<b[i].f, b[i].row.annotator_remarks>>

\* a text remarked twice in one file and once more by another annotator
C8_Witness ==
    /\ pc = "extracted"
    /\ \E k \in DOMAIN review_csv :
          LET a == review_csv[k].annotators
          IN  /\ Len(a) = 3
              /\ a[1] = a[2]
              /\ a[2] # a[3]

(***************************************************************************)
(* annotation_tool.py                                                      *)
(*                                                                         *)
(* One action per button; a click reruns the script, which handles the     *)
(* click and calls st.rerun().  current_idx counts from 0 as in the code;  *)
(* row i of a table is df[i + 1].  The annotator_id column of progress_df  *)
(* holds st.session_state.annotator_id in every row and is not repeated.   *)
(***************************************************************************)
CLASS_LABELS == 1..4
ANNOTATOR_BUTTONS == 1..4
SkippedShown == 24

Min(a, b) == IF a < b THEN a ELSE b
Max(a, b) == IF a > b THEN a ELSE b

\* an uploaded row without annotation columns
FreshRow(t) == [text_cleaned |-> t, annotation_label |-> "", annotator_remarks |-> "",
                is_skipped |-> FALSE]

\* the tables a user uploads: the dataset itself, of up to MaxItems rows, or
\* a two-row table that already carries annotation_label, annotator_remarks
\* and is_skipped, each row pending, labelled or skipped
UploadTables ==
    {[has_columns |-> FALSE, rows |-> [i \in 1..n |-> FreshRow(i)]] : n \in 1..MaxItems}
    \cup
    {[has_columns |-> TRUE,
      rows |-> [i \in 1..2 |->
                 [text_cleaned |-> i, annotation_label |-> kind[i][1],
                  annotator_remarks |-> "", is_skipped |-> kind[i][2]]]]
       : kind \in [1..2 -> {<<"", FALSE>>, <<"1", FALSE>>, <<"", TRUE>>}]}

\* init_progress(df, annotator_id)
init_progress(df, a) ==
    [i \in DOMAIN df.rows |->
        [text_cleaned |-> df.rows[i].text_cleaned,
         annotation_label |-> IF df.has_columns
                              THEN read_cell(df.rows[i].annotation_label)
                              ELSE NaN,
         annotator_remarks |-> IF df.has_columns THEN df.rows[i].annotator_remarks ELSE "",
         is_skipped |-> IF df.has_columns THEN df.rows[i].is_skipped ELSE FALSE]]

\* progress_df['annotation_label'].isna() & ~progress_df['is_skipped'], as
\* the set of row positions where it is True
pending(df) ==
    {i \in 0..(Len(df) - 1) : df[i + 1].annotation_label = NaN /\ ~df[i + 1].is_skipped}

\* Series.idxmax() of a boolean Series with a True: the first True position
idxmax(S) == CHOOSE i \in S : \A j \in S : i <= j

\* a search that stops at the end of the table instead of wrapping
get_next_unannotated_nowrap(df, idx, total) ==
    LET after_idx == {i \in pending(df) : i >= idx + 1}
    IN  IF after_idx # {} THEN idxmax(after_idx)
        ELSE Min(idx + 1, total - 1)

\* get_next_unannotated(current_idx, total) on st.session_state.progress_df
get_next_unannotated(df, idx, total) ==
    LET after_idx == {i \in pending(df) : i >= idx + 1}
        before_idx == {i \in pending(df) : i < idx}
    IN  IF after_idx # {} THEN idxmax(after_idx)
        ELSE IF before_idx # {} THEN idxmax(before_idx)
        ELSE Min(idx + 1, total - 1)

\* a step back that is not clamped at the first row
get_prev_index_unclamped(idx) == idx - 1

get_prev_index(idx) == Max(0, idx - 1)

total == Len(progress_df)

\* the three branches of the page: the uploader, the annotator buttons, the
\* annotation view
Unloaded == ~data_loaded
AnnotatorUnselected == data_loaded /\ annotator_id = 0
Annotating == data_loaded /\ annotator_id # 0

InitTool ==
    /\ pc = "tool"
    /\ files = <<>>
    /\ InitRest

nonToolVars == <<pc, analyzerVars, kappaVars, review_csv>>

\* the file uploader, with a CSV that has a text column
Upload ==
    /\ ~data_loaded
    /\ \E df \in UploadTables : uploaded_df' = df
    /\ data_loaded' = TRUE
    /\ UNCHANGED <<annotator_id, progress_df, current_idx, view_skipped>>
    /\ UNCHANGED nonToolVars

\* the buttons ann_1 .. ann_4
SelectAnnotator ==
    /\ data_loaded
    /\ annotator_id = 0
    /\ \E i \in ANNOTATOR_BUTTONS :
          /\ annotator_id' = i
          /\ progress_df' = init_progress(uploaded_df, i)
          /\ current_idx' = IF pending(init_progress(uploaded_df, i)) # {}
                            THEN idxmax(pending(init_progress(uploaded_df, i)))
                            ELSE 0
    /\ UNCHANGED <<data_loaded, uploaded_df, view_skipped>>
    /\ UNCHANGED nonToolVars

\* sidebar_skipped
ViewSkipped ==
    /\ Annotating
    /\ view_skipped' = TRUE
    /\ UNCHANGED <<data_loaded, uploaded_df, annotator_id, progress_df, current_idx>>
    /\ UNCHANGED nonToolVars

\* sidebar_logout
Logout ==
    /\ Annotating
    /\ annotator_id' = 0
    /\ progress_df' = <<>>
    /\ current_idx' = 0
    /\ UNCHANGED <<data_loaded, uploaded_df, view_skipped>>
    /\ UNCHANGED nonToolVars

\* btn_prev
Prev ==
    /\ Annotating
    /\ current_idx' = get_prev_index(current_idx)
    /\ UNCHANGED <<data_loaded, uploaded_df, annotator_id, progress_df, view_skipped>>
    /\ UNCHANGED nonToolVars

\* btn_next
NextEmail ==
    /\ Annotating
    /\ current_idx' = Min(current_idx + 1, total - 1)
    /\ UNCHANGED <<data_loaded, uploaded_df, annotator_id, progress_df, view_skipped>>
    /\ UNCHANGED nonToolVars

\* btn_skip
Skip ==
    /\ Annotating
    /\ progress_df' = [progress_df EXCEPT ![current_idx + 1].is_skipped = TRUE]
    /\ current_idx' = get_next_unannotated(progress_df', current_idx, total)
    /\ UNCHANGED <<data_loaded, uploaded_df, annotator_id, view_skipped>>
    /\ UNCHANGED nonToolVars

\* btn_next_unannotated
NextBlank ==
    /\ Annotating
    /\ current_idx' = get_next_unannotated(progress_df, current_idx, total)
    /\ UNCHANGED <<data_loaded, uploaded_df, annotator_id, progress_df, view_skipped>>
    /\ UNCHANGED nonToolVars

\* jump_input and btn_go: the number input admits 1..total
Go ==
    /\ Annotating
    /\ \E jump_to \in 1..total : current_idx' = jump_to - 1
    /\ UNCHANGED <<data_loaded, uploaded_df, annotator_id, progress_df, view_skipped>>
    /\ UNCHANGED nonToolVars

\* the buttons cls_1 .. cls_4
AssignClass ==
    /\ Annotating
    /\ \E k \in CLASS_LABELS :
          progress_df' = [progress_df EXCEPT ![current_idx + 1].annotation_label = k,
                                             ![current_idx + 1].is_skipped = FALSE]
    /\ current_idx' = get_next_unannotated(progress_df', current_idx, total)
    /\ UNCHANGED <<data_loaded, uploaded_df, annotator_id, view_skipped>>
    /\ UNCHANGED nonToolVars

\* "Save Notes", offered when the notes box is not empty
SaveNotes ==
    /\ Annotating
    /\ \E remarks \in {"note"} :
          progress_df' = [progress_df EXCEPT ![current_idx + 1].annotator_remarks = remarks]
    /\ UNCHANGED <<data_loaded, uploaded_df, annotator_id, current_idx, view_skipped>>
    /\ UNCHANGED nonToolVars

\* skipped_df.index[:24]
skipped_index(df) ==
    LET sk == {i \in 0..(Len(df) - 1) : df[i + 1].is_skipped}
    IN  {i \in sk : Cardinality({j \in sk : j < i}) < SkippedShown}

\* the buttons skip_<idx> of the skipped list
JumpToSkipped ==
    /\ Annotating
    /\ view_skipped
    /\ \E idx \in skipped_index(progress_df) : current_idx' = idx
    /\ view_skipped' = FALSE
    /\ UNCHANGED <<data_loaded, uploaded_df, annotator_id, progress_df>>
    /\ UNCHANGED nonToolVars

\* close_skipped
CloseSkipped ==
    /\ Annotating
    /\ view_skipped
    /\ view_skipped' = FALSE
    /\ UNCHANGED <<data_loaded, uploaded_df, annotator_id, progress_df, current_idx>>
    /\ UNCHANGED nonToolVars

NextTool ==
    \/ Upload
    \/ SelectAnnotator
    \/ ViewSkipped
    \/ Logout
    \/ Prev
    \/ NextEmail
    \/ Skip
    \/ NextBlank
    \/ Go
    \/ AssignClass
    \/ SaveNotes
    \/ JumpToSkipped
    \/ CloseSkipped

SpecTool == InitTool /\ [][NextTool]_vars

\* C10 (as claimed): in the Annotating state no row of the progress table
\* holds both a label and is_skipped = True.
C10_LabelledNotSkipped ==
    Annotating =>
        \A i \in DOMAIN progress_df :
            progress_df[i].annotation_label # NaN => ~progress_df[i].is_skipped

\* C11 (as claimed): after a Skip, a class-label assignment or a Next Blank
\* the current index is on a pending row whenever the progress table holds a
\* pending row after the action, and it is min(current + 1, total - 1) when
\* the table holds none.
C11_IndexOnPendingAsClaimed ==
    [][(Skip \/ AssignClass \/ NextBlank) =>
          /\ pending(progress_df') # {} => current_idx' \in pending(progress_df')
          /\ pending(progress_df') = {} =>
                 current_idx' = Min(current_idx + 1, total - 1)]_vars

\* C11 (amended): get_next_unannotated never looks at the current row. After
\* a Skip, a class-label assignment or a Next Blank the index is on the first
\* pending row after the current one, else on the first pending row before
\* it, else on min(current + 1, total - 1). Skip and the class buttons leave
\* the current row not pending, so after them the index is on a pending row
\* whenever one exists; after Next Blank it is on a pending row whenever a
\* pending row other than the current one exists.
C11_IndexOnNextPending ==
    [][(Skip \/ AssignClass \/ NextBlank) =>
          LET others == pending(progress_df') \ {current_idx}
              after  == {i \in others : i > current_idx}
          IN  /\ after # {} => current_idx' = idxmax(after)
              /\ (after = {} /\ others # {}) => current_idx' = idxmax(others)
              /\ others = {} => current_idx' = Min(current_idx + 1, total - 1)
              /\ others # {} => current_idx' \in pending(progress_df')
              /\ (Skip \/ AssignClass) =>
                     (pending(progress_df') # {} =>
                         current_idx' \in pending(progress_df'))]_vars

\* a table uploaded without annotation columns whose last row has been
\* skipped, the index having wrapped to the pending first row
C11_Witness ==
    /\ Annotating
    /\ ~uploaded_df.has_columns
    /\ total >= 2
    /\ progress_df[total].is_skipped
    /\ current_idx = 0
    /\ 0 \in pending(progress_df)

\* C12: for an uploaded table of at least one row the session is in exactly
\* one of Unloaded, AnnotatorUnselected and Annotating; in Annotating
\* 0 <= current_idx <= total - 1; and logout leads to AnnotatorUnselected
\* with current_idx = 0.
C12_StatesAndIndexRange ==
    /\ [](/\ Cardinality({s \in {"Unloaded", "AnnotatorUnselected", "Annotating"} :
                            \/ s = "Unloaded" /\ Unloaded
                            \/ s = "AnnotatorUnselected" /\ AnnotatorUnselected
                            \/ s = "Annotating" /\ Annotating}) = 1
          /\ Annotating => (total >= 1 /\ 0 <= current_idx /\ current_idx <= total - 1))
    /\ [][Logout => (AnnotatorUnselected' /\ current_idx' = 0)]_vars

\* every row of a table of at least two rows labelled, the index clamped on
\* the last row
C12_Witness ==
    /\ Annotating
    /\ ~uploaded_df.has_columns
    /\ total >= 2
    /\ \A i \in DOMAIN progress_df : progress_df[i].annotation_label \in CLASS_LABELS
    /\ current_idx = total - 1

====
